---- MODULE Spec2Model ----
(***************************************************************************)
(* Model of the frame feature pipeline of frames-extractor-backend:        *)
(*   VideoService.extractFrames        (services/videoService.ts)          *)
(*   VectorService                     (services/vectorService.ts)         *)
(*   POST /extract-frames/:videoId and POST /search-similar (routes/video) *)
(*                                                                         *)
(* The decoder (ffmpeg), the image reader (sharp) and the remote index     *)
(* (Qdrant) are the environment: the decoder is deterministic in the video *)
(* and the interval but may fail, an image read may fail, and the remote   *)
(* index answers exactly when it is up and its collection exists.          *)
(*                                                                         *)
(* Numbers: a feature component count/totalPixels is stored as its         *)
(* numerator count (every image is resized to the same totalPixels), and a *)
(* cosine score dot/sqrt(|a|^2 |b|^2) is stored as the pair (dot, mag2)    *)
(* and compared exactly through squares (all components are >= 0).         *)
(***************************************************************************)
EXTENDS Integers, Sequences, FiniteSets, TLC

VARIABLES
    qdrantUrl,        \* process.env.QDRANT_URL is set
    qdrantClient,     \* this.qdrantClient is non-null
    initPc,           \* position of initializeQdrant: "pending" | "ok" | "failed" | "skipped"
    remoteUp,         \* the remote index answers calls
    collectionExists, \* the remote collection 'frame_vectors' exists
    remotePoints,     \* the remote collection: set of points [id, vector, payload]
    inMemoryVectors,  \* this.inMemoryVectors in insertion order: Seq of [id, frame, features]
    dirs,             \* frames/<videoId>: file name -> interval of the run that wrote it
    corrupt,          \* seconds of the video whose image the decoder writes undecodable
    ing,              \* the latest ingestion request (POST /extract-frames/:videoId) and its response
    lastRun,          \* per video: interval, ids and timestamps of its latest successful extraction
    firstInserted,    \* ids in the order of their first insertion into the local map
    findRes,          \* outcome of findSimilarFrames for the query being answered
    requests          \* number of ingestion requests received

vars == <<qdrantUrl, qdrantClient, initPc, remoteUp, collectionExists, remotePoints,
          inMemoryVectors, dirs, corrupt, ing, lastRun, firstInserted, findRes, requests>>

----------------------------------------------------------------------------
(* Bounds *)

MaxDuration == 3      \* length in seconds of the uploaded video
MaxRequests == 2      \* ingestion requests served
MaxLimit == 1         \* largest limit requested
ImgPixels == 1        \* pixels of a resized image (256*256 in the program)

(* Program constants *)

PadWidth == 4         \* padStart(4, '0') and frame_%04d
Bins == 64            \* bins per channel
MaxBin == 63          \* floor(value / 255 * 63)
MaxByte == 255
VectorSize == 192     \* 64 bins x 3 channels
ThresholdNum == 1     \* score_threshold: 0.1 = 1/10
ThresholdDen == 10

VideoIds == {"v1"}

\* intervals requested: every second, and one longer than the video
Intervals == {1, MaxDuration + 1}

\* limits requested: none, and the largest
Limits == {0, MaxLimit}

Duration(v) == MaxDuration

Min(a, b) == IF a < b THEN a ELSE b

----------------------------------------------------------------------------
(* File names and frame ids *)

RECURSIVE Digits(_)
\* String(n): the decimal digits of n, most significant first
Digits(n) == IF n < 10 THEN <<n>> ELSE Append(Digits(n \div 10), n % 10)

RECURSIVE Zeros(_)
Zeros(k) == IF k <= 0 THEN <<>> ELSE <<0>> \o Zeros(k - 1)

\* s.padStart(width, '0') on a digit string
PadStart(s, width) == Zeros(width - Len(s)) \o s

\* the padded sequence number of a frame id and of a frame_%04d file name
Pad4(n) == PadStart(Digits(n), PadWidth)

RECURSIVE LexLess(_, _)
\* string order of two file names frame_<a>.png and frame_<b>.png: the
\* names differ in the digits only, and '.' sorts before every digit
LexLess(a, b) ==
    IF a = <<>> THEN b # <<>>
    ELSE IF b = <<>> THEN FALSE
    ELSE IF Head(a) # Head(b) THEN Head(a) < Head(b)
    ELSE LexLess(Tail(a), Tail(b))

RECURSIVE SortNames(_)
\* Array.prototype.sort() on a set of distinct file names
SortNames(S) ==
    IF S = {} THEN <<>>
    ELSE LET m == CHOOSE x \in S : \A y \in S \ {x} : LexLess(x, y)
         IN <<m>> \o SortNames(S \ {m})

FrameId(videoId, index) == <<videoId, Pad4(index + 1)>>

\* the 'end' handler taking the timestamp from the 1-based sequence number
FramesOf_OneBased(videoId, interval, dir) ==
    LET frameFiles == SortNames(DOMAIN dir)
    IN [i \in 1..Len(frameFiles) |->
           [id |-> FrameId(videoId, i - 1),
            videoId |-> videoId,
            timestamp |-> i * interval,
            filename |-> frameFiles[i],
            path |-> <<videoId, frameFiles[i]>>]]

\* the frames the 'end' handler builds from a directory listing
FramesOf(videoId, interval, dir) ==
    LET frameFiles == SortNames(DOMAIN dir)
    IN [i \in 1..Len(frameFiles) |->
           [id |-> FrameId(videoId, i - 1),
            videoId |-> videoId,
            timestamp |-> (i - 1) * interval,
            filename |-> frameFiles[i],
            path |-> <<videoId, frameFiles[i]>>]]

\* number of images the decoder samples at fps = 1/interval
FrameCount(videoId, interval) == Duration(videoId) \div interval

\* a decoder that numbers its output after the files already present
Decode_Append(videoId, interval, dir) ==
    LET n == FrameCount(videoId, interval)
        m == Cardinality(DOMAIN dir)
        written == {Pad4(k) : k \in (m + 1)..(m + n)}
    IN [f \in (DOMAIN dir) \cup written |-> IF f \in written THEN interval ELSE dir[f]]

\* the decoder's output: frame_0001 .. frame_n, overwriting files of the same name
Decode(videoId, interval, dir) ==
    LET n == FrameCount(videoId, interval)
        written == {Pad4(k) : k \in 1..n}
    IN [f \in (DOMAIN dir) \cup written |-> IF f \in written THEN interval ELSE dir[f]]

----------------------------------------------------------------------------
(* Images and the colour histogram *)

Black == <<0, 0, 4>>
White == <<255, 255, 255>>
Teal == <<0, 255, 128>>

\* the raw RGB buffer sharp returns for the picture the video shows at second t,
\* one <<r, g, b>> triple per pixel
Picture(videoId, t) ==
    [i \in 1..ImgPixels |->
        IF t % 3 = 0 THEN Teal ELSE IF t % 3 = 1 THEN Black ELSE White]

RECURSIVE DigitsValue(_)
\* the number a digit string denotes
DigitsValue(d) == IF d = <<>> THEN 0 ELSE 10 * DigitsValue(SubSeq(d, 1, Len(d) - 1)) + d[Len(d)]

\* the second of the video shown by a file the decoder wrote as its k-th output
\* of a run with the given interval
FileSecond(name, dir) == (DigitsValue(name) - 1) * dir[name]

\* the buffer read from a file
FileData(videoId, name, dir) == Picture(videoId, FileSecond(name, dir))

\* Math.floor((value / 255) * 63)
Bin(value) == (value * MaxBin) \div MaxByte

\* rHist / gHist / bHist: per bin, the number of pixels whose channel c falls in it
ChannelHist(data, c) ==
    [b \in 1..Bins |-> Cardinality({i \in 1..Len(data) : Bin(data[i][c]) = b - 1})]

\* a histogram that leaves out the blue channel
computeColorHistogram_TwoChannels(data) ==
    ChannelHist(data, 1) \o ChannelHist(data, 2)

\* [...rHist, ...gHist, ...bHist], each count over totalPixels (kept as its numerator)
computeColorHistogram(data) ==
    ChannelHist(data, 1) \o ChannelHist(data, 2) \o ChannelHist(data, 3)

----------------------------------------------------------------------------
(* Cosine similarity *)

RECURSIVE SumProducts(_, _, _)
\* the sum of vecA[i] * vecB[i] for i in the set I
SumProducts(vecA, vecB, I) ==
    IF I = {} THEN 0
    ELSE LET i == CHOOSE j \in I : TRUE
         IN vecA[i] * vecB[i] + SumProducts(vecA, vecB, I \ {i})

\* vecA.reduce((sum, a, i) => sum + a * vecB[i], 0): only the components where
\* both vectors are non-zero add to the sum
Dot(vecA, vecB) ==
    SumProducts(vecA, vecB, {i \in 1..Len(vecA) : vecA[i] # 0 /\ vecB[i] # 0})

\* dot / (sqrt(|a|^2) * sqrt(|b|^2)) as the pair (dot, |a|^2 |b|^2)
cosineSimilarity(vecA, vecB) ==
    [dot |-> Dot(vecA, vecB), mag2 |-> Dot(vecA, vecA) * Dot(vecB, vecB)]

\* s < t for two scores with non-negative dot products
ScoreLess(s, t) == s.dot * s.dot * t.mag2 < t.dot * t.dot * s.mag2

\* s >= score_threshold
AboveThreshold(s) ==
    s.dot * s.dot * ThresholdDen * ThresholdDen >= ThresholdNum * ThresholdNum * s.mag2

----------------------------------------------------------------------------
(* The local map (a JavaScript Map keeps keys in first-insertion order) *)

MapIds(m) == {m[i].id : i \in 1..Len(m)}

MapHas(m, id) == id \in MapIds(m)

MapGet(m, id) == m[CHOOSE i \in 1..Len(m) : m[i].id = id]

\* Map.prototype.set: an existing key keeps its position, a new key goes last
MapSet(m, id, frame, features) ==
    LET e == [id |-> id, frame |-> frame, features |-> features]
    IN IF MapHas(m, id)
       THEN [i \in 1..Len(m) |-> IF m[i].id = id THEN e ELSE m[i]]
       ELSE Append(m, e)

----------------------------------------------------------------------------
(* The remote collection *)

RemoteIds(points) == {p.id : p \in points}

\* the remote index answers a call
RemoteOk == remoteUp /\ collectionExists

\* upsert of one point keyed by its id
Upsert(points, frame, features) ==
    {q \in points : q.id # frame.id} \cup
    {[id |-> frame.id, vector |-> features,
      payload |-> [videoId |-> frame.videoId, timestamp |-> frame.timestamp,
                   filename |-> frame.filename, path |-> frame.path]]}

\* retrieve(ids: [frameId]): the matching points
Retrieve(points, frameId) == {p \in points : p.id = frameId}

\* the answers search may give: the points scoring at least the threshold, ranked
\* by descending score (ties in any order), cut to lim entries
SearchResults(points, vector, lim) ==
    LET scored == {[id |-> p.id, score |-> cosineSimilarity(vector, p.vector),
                    payload |-> p.payload] : p \in points}
        hits == {h \in scored : AboveThreshold(h.score)}
        n == Cardinality(hits)
        ranked == {r \in [1..n -> hits] :
                      /\ \A i, j \in 1..n : i # j => r[i] # r[j]
                      /\ \A i, j \in 1..n : i < j => ~ScoreLess(r[i].score, r[j].score)}
    IN {SubSeq(r, 1, Min(lim, n)) : r \in ranked}

----------------------------------------------------------------------------
(* VectorService.storeFrameVector *)

\* storeFrameVector whose catch block only logs the error
storeFrameVector_NoFallback(client, ok, points, local, frame, features) ==
    IF client
    THEN [points |-> IF ok THEN Upsert(points, frame, features) ELSE points,
          local |-> local, contacted |-> TRUE, remoteOk |-> ok, raised |-> FALSE]
    ELSE [points |-> points, local |-> MapSet(local, frame.id, frame, features),
          contacted |-> FALSE, remoteOk |-> FALSE, raised |-> FALSE]

\* the state after storeFrameVector(frame, features): the upsert is tried when a
\* client is configured, and its failure is caught and redirected to the local map
storeFrameVector(client, ok, points, local, frame, features) ==
    IF client
    THEN IF ok
         THEN [points |-> Upsert(points, frame, features), local |-> local,
               contacted |-> TRUE, remoteOk |-> TRUE, raised |-> FALSE]
         ELSE [points |-> points, local |-> MapSet(local, frame.id, frame, features),
               contacted |-> TRUE, remoteOk |-> FALSE, raised |-> FALSE]
    ELSE [points |-> points, local |-> MapSet(local, frame.id, frame, features),
          contacted |-> FALSE, remoteOk |-> FALSE, raised |-> FALSE]

----------------------------------------------------------------------------
(* VectorService.findSimilarFrames *)

\* Array.prototype.slice(0, limit) for limit >= 0
Slice(seq, limit) == SubSeq(seq, 1, Min(limit, Len(seq)))

RECURSIVE FilterSeq(_, _)
\* Array.prototype.filter keeping the elements whose id differs from frameId
FilterSeq(seq, frameId) ==
    IF seq = <<>> THEN <<>>
    ELSE IF Head(seq).id # frameId
         THEN <<Head(seq)>> \o FilterSeq(Tail(seq), frameId)
         ELSE FilterSeq(Tail(seq), frameId)

\* the try block without the filter on the reference id
RemoteSearch_NoFilter(ok, points, frameId, limit, searchResult) ==
    IF ~ok THEN [status |-> "error", results |-> <<>>]
    ELSE IF Retrieve(points, frameId) = {} THEN [status |-> "notfound", results |-> <<>>]
    ELSE LET kept == Slice(searchResult, limit)
         IN [status |-> "ok",
             results |-> [i \in 1..Len(kept) |->
                            [frame |-> [id |-> kept[i].id,
                                        videoId |-> kept[i].payload.videoId,
                                        timestamp |-> kept[i].payload.timestamp,
                                        filename |-> kept[i].payload.filename,
                                        path |-> kept[i].payload.path],
                             score |-> kept[i].score]]]

\* the try block: retrieve the reference, search, filter, slice, map
RemoteSearch(ok, points, frameId, limit, searchResult) ==
    IF ~ok THEN [status |-> "error", results |-> <<>>]
    ELSE IF Retrieve(points, frameId) = {} THEN [status |-> "notfound", results |-> <<>>]
    ELSE LET kept == Slice(FilterSeq(searchResult, frameId), limit)
         IN [status |-> "ok",
             results |-> [i \in 1..Len(kept) |->
                            [frame |-> [id |-> kept[i].id,
                                        videoId |-> kept[i].payload.videoId,
                                        timestamp |-> kept[i].payload.timestamp,
                                        filename |-> kept[i].payload.filename,
                                        path |-> kept[i].payload.path],
                             score |-> kept[i].score]]]

\* the answers the remote index may give to the search call of a query
SearchAnswers(client, ok, points, frameId, limit) ==
    IF client /\ ok /\ Retrieve(points, frameId) # {}
    THEN LET ref == CHOOSE p \in points : p.id = frameId
         IN SearchResults(points, ref.vector, limit + 1)
    ELSE {<<>>}

RECURSIVE Similarities(_, _, _)
\* the loop over the map: one entry per stored id other than frameId, in map order
Similarities(local, frameId, refFeatures) ==
    IF local = <<>> THEN <<>>
    ELSE LET e == Head(local)
             rest == Similarities(Tail(local), frameId, refFeatures)
         IN IF e.id # frameId
            THEN <<[frame |-> e.frame, score |-> cosineSimilarity(refFeatures, e.features)]>>
                 \o rest
            ELSE rest

\* an insertion that puts x before the elements of equal score
InsertDesc_Unstable(sorted, x) ==
    LET before == {i \in 1..Len(sorted) : ScoreLess(x.score, sorted[i].score)}
        n == Cardinality(before)
    IN SubSeq(sorted, 1, n) \o <<x>> \o SubSeq(sorted, n + 1, Len(sorted))

\* x placed into a list sorted by (a, b) => b.score - a.score, after every
\* element it does not strictly precede
InsertDesc(sorted, x) ==
    LET before == {i \in 1..Len(sorted) : ~ScoreLess(sorted[i].score, x.score)}
        n == Cardinality(before)
    IN SubSeq(sorted, 1, n) \o <<x>> \o SubSeq(sorted, n + 1, Len(sorted))

RECURSIVE SortDesc(_)
\* Array.prototype.sort((a, b) => b.score - a.score), a stable sort
SortDesc(seq) ==
    IF seq = <<>> THEN <<>>
    ELSE InsertDesc(SortDesc(SubSeq(seq, 1, Len(seq) - 1)), seq[Len(seq)])

\* the in-memory search cutting the ranking one entry late
LocalSearch_OffByOne(local, frameId, limit) ==
    IF ~MapHas(local, frameId)
    THEN [outcome |-> "notfound", via |-> "local", results |-> <<>>]
    ELSE LET refFrameData == MapGet(local, frameId)
         IN [outcome |-> "ok", via |-> "local",
             results |-> Slice(SortDesc(Similarities(local, frameId,
                                                     refFrameData.features)), limit + 1)]

\* the in-memory similarity search
LocalSearch(local, frameId, limit) ==
    IF ~MapHas(local, frameId)
    THEN [outcome |-> "notfound", via |-> "local", results |-> <<>>]
    ELSE LET refFrameData == MapGet(local, frameId)
         IN [outcome |-> "ok", via |-> "local",
             results |-> Slice(SortDesc(Similarities(local, frameId,
                                                     refFrameData.features)), limit)]

\* findSimilarFrames without the catch: an error of the remote calls is the
\* query's error
findSimilarFrames_NoCatch(client, ok, points, local, frameId, limit, searchResult) ==
    LET r == RemoteSearch(ok, points, frameId, limit, searchResult)
    IN IF client
       THEN [outcome |-> r.status, via |-> "remote", results |-> r.results]
       ELSE LocalSearch(local, frameId, limit)

\* findSimilarFrames(frameId, limit): whatever the try block throws is caught
\* and the query continues in the local map
findSimilarFrames(client, ok, points, local, frameId, limit, searchResult) ==
    LET r == RemoteSearch(ok, points, frameId, limit, searchResult)
    IN IF client /\ r.status = "ok"
       THEN [outcome |-> "ok", via |-> "remote", results |-> r.results]
       ELSE LocalSearch(local, frameId, limit)

----------------------------------------------------------------------------
(* VideoService.extractFrames and VectorService.processFrame *)

\* extractFrames rejecting when the directory listing is empty
extractFrames_RejectEmpty(videoId, interval, decoderOk, dir) ==
    LET written == Decode(videoId, interval, dir)
    IN IF ~decoderOk
       THEN [rejected |-> TRUE, frames |-> <<>>, dir |-> dir]
       ELSE [rejected |-> DOMAIN written = {},
             frames |-> FramesOf(videoId, interval, written), dir |-> written]

\* extractFrames whose 'error' handler resolves with the files found in the directory
extractFrames_ResolveOnError(videoId, interval, decoderOk, dir) ==
    IF ~decoderOk
    THEN [rejected |-> FALSE, frames |-> FramesOf(videoId, interval, dir), dir |-> dir]
    ELSE LET written == Decode(videoId, interval, dir)
         IN [rejected |-> FALSE, frames |-> FramesOf(videoId, interval, written),
             dir |-> written]

\* the promise of extractFrames: rejected on a decoder error, otherwise resolved
\* by the 'end' handler with the frames of the directory listing
extractFrames(videoId, interval, decoderOk, dir) ==
    IF ~decoderOk
    THEN [rejected |-> TRUE, frames |-> <<>>, dir |-> dir]
    ELSE LET written == Decode(videoId, interval, dir)
         IN [rejected |-> FALSE, frames |-> FramesOf(videoId, interval, written),
             dir |-> written]

\* { ...frame, features }
WithFeatures(frame, features) ==
    [x \in (DOMAIN frame) \cup {"features"} |->
        IF x = "features" THEN features ELSE frame[x]]

\* processFrame that keeps a copy of every vector in the local map as well
processFrame_AlsoLocal(readable, data, client, ok, points, local, frame) ==
    LET features == computeColorHistogram(data)
        st == storeFrameVector(client, ok, points, local, frame, features)
    IN IF ~readable
       THEN [threw |-> TRUE, stored |-> FALSE, frame |-> frame,
             points |-> points, local |-> local, st |-> st]
       ELSE [threw |-> st.raised, stored |-> TRUE,
             frame |-> WithFeatures(frame, features),
             points |-> st.points,
             local |-> MapSet(st.local, frame.id, frame, features), st |-> st]

\* processFrame(frame): the histogram of the frame's file, then the store;
\* an error of either is rethrown
processFrame(readable, data, client, ok, points, local, frame) ==
    LET features == computeColorHistogram(data)
        st == storeFrameVector(client, ok, points, local, frame, features)
    IN IF ~readable
       THEN [threw |-> TRUE, stored |-> FALSE, frame |-> frame,
             points |-> points, local |-> local, st |-> st]
       ELSE [threw |-> st.raised, stored |-> TRUE,
             frame |-> WithFeatures(frame, features),
             points |-> st.points, local |-> st.local, st |-> st]

\* the loop body without its try/catch: a frame whose processing threw ends the request
RouteLoopBody_Abort(acc, frame, pf) ==
    [idx |-> acc.idx + 1,
     processedFrames |-> IF pf.threw THEN acc.processedFrames
                         ELSE Append(acc.processedFrames, pf.frame),
     aborted |-> pf.threw,
     points |-> pf.points,
     local |-> pf.local,
     first |-> IF MapHas(pf.local, frame.id) /\ ~MapHas(acc.local, frame.id)
               THEN Append(acc.first, frame.id) ELSE acc.first]

\* one turn of the route's loop over the extracted frames: a frame whose
\* processing threw is pushed as it was extracted
RouteLoopBody(acc, frame, pf) ==
    [idx |-> acc.idx + 1,
     processedFrames |-> Append(acc.processedFrames, IF pf.threw THEN frame ELSE pf.frame),
     aborted |-> FALSE,
     points |-> pf.points,
     local |-> pf.local,
     first |-> IF MapHas(pf.local, frame.id) /\ ~MapHas(acc.local, frame.id)
               THEN Append(acc.first, frame.id) ELSE acc.first]

RECURSIVE RouteLoop(_, _, _, _, _, _, _)
\* for (const frame of frames) { ... }: the frames in order, each read from its
\* file; the frames whose index is in unreadable have a file that cannot be decoded
RouteLoop(acc, frames, videoId, dir, unreadable, client, ok) ==
    IF acc.aborted \/ acc.idx > Len(frames) THEN acc
    ELSE LET frame == frames[acc.idx]
             pf == processFrame(acc.idx \notin unreadable,
                                FileData(videoId, frame.filename, dir),
                                client, ok, acc.points, acc.local, frame)
         IN RouteLoop(RouteLoopBody(acc, frame, pf), frames, videoId, dir, unreadable,
                      client, ok)

----------------------------------------------------------------------------
(* Initial state: the service right after its construction *)

NoFrame == <<"none", <<>>>>

\* no query has just been answered
NoFind == [frameId |-> NoFrame, limit |-> 0, outcome |-> "none", via |-> "none",
           results |-> <<>>, contacted |-> FALSE, remoteOk |-> FALSE,
           refInRemote |-> FALSE]

Init ==
    /\ qdrantUrl \in BOOLEAN
    /\ qdrantClient = qdrantUrl
    /\ initPc = IF qdrantUrl THEN "pending" ELSE "skipped"
    /\ remoteUp \in (IF qdrantUrl THEN BOOLEAN ELSE {FALSE})
    /\ collectionExists \in (IF qdrantUrl THEN BOOLEAN ELSE {FALSE})
    /\ remotePoints = {}
    /\ inMemoryVectors = <<>>
    /\ dirs = [v \in VideoIds |-> <<>>]
    /\ corrupt \in SUBSET (0..(MaxDuration - 1))
    /\ ing = [status |-> "none", videoId |-> "none", interval |-> 0, decoderOk |-> FALSE,
              frames |-> <<>>, processedFrames |-> <<>>, unreadable |-> {},
              contacted |-> FALSE, remoteOk |-> FALSE, repeated |-> FALSE]
    /\ lastRun = [v \in VideoIds |-> [interval |-> 0, keys |-> <<>>]]
    /\ firstInserted = <<>>
    /\ findRes = NoFind
    /\ requests = 0

----------------------------------------------------------------------------
(* Actions *)

\* initializeQdrant whose catch block only logs the failure and keeps the client
InitializeQdrant_KeepClient ==
    /\ findRes = NoFind
    /\ initPc = "pending"
    /\ IF remoteUp
       THEN /\ collectionExists' = TRUE
            /\ initPc' = "ok"
       ELSE /\ initPc' = "failed"
            /\ UNCHANGED collectionExists
    /\ UNCHANGED <<qdrantUrl, qdrantClient, remoteUp, remotePoints, inMemoryVectors, dirs,
                   corrupt, ing, lastRun, firstInserted, findRes, requests>>

\* initializeQdrant resumes after ensureCollection: the collection is looked up and
\* created if absent; any failure drops the client
InitializeQdrant ==
    /\ findRes = NoFind
    /\ initPc = "pending"
    /\ IF remoteUp
       THEN /\ collectionExists' = TRUE
            /\ initPc' = "ok"
            /\ UNCHANGED qdrantClient
       ELSE /\ qdrantClient' = FALSE
            /\ initPc' = "failed"
            /\ UNCHANGED collectionExists
    /\ UNCHANGED <<qdrantUrl, remoteUp, remotePoints, inMemoryVectors, dirs, corrupt, ing,
                   lastRun, firstInserted, findRes, requests>>

\* the remote index becomes unreachable
RemoteFails ==
    /\ findRes = NoFind
    /\ qdrantUrl /\ remoteUp
    /\ remoteUp' = FALSE
    /\ UNCHANGED <<qdrantUrl, qdrantClient, initPc, collectionExists, remotePoints,
                   inMemoryVectors, dirs, corrupt, ing, lastRun, firstInserted, findRes,
                   requests>>

\* the remote index becomes reachable again
RemoteRecovers ==
    /\ findRes = NoFind
    /\ qdrantUrl /\ ~remoteUp
    /\ remoteUp' = TRUE
    /\ UNCHANGED <<qdrantUrl, qdrantClient, initPc, collectionExists, remotePoints,
                   inMemoryVectors, dirs, corrupt, ing, lastRun, firstInserted, findRes,
                   requests>>

\* the ids and timestamps of a frame list
Keys(frames) == [i \in 1..Len(frames) |-> [id |-> frames[i].id,
                                            timestamp |-> frames[i].timestamp]]

\* POST /extract-frames/:videoId: extractFrames, then the loop over its frames,
\* then the response; a rejected extraction goes to the error handler
ExtractFramesRequest(videoId, interval, decoderOk) ==
    /\ findRes = NoFind
    /\ requests < MaxRequests
    /\ requests' = requests + 1
    /\ LET ex == extractFrames(videoId, interval, decoderOk, dirs[videoId])
           unreadable == {i \in 1..Len(ex.frames) :
                             FileSecond(ex.frames[i].filename, ex.dir) \in corrupt}
           start == [idx |-> 1, processedFrames |-> <<>>,
                     aborted |-> ex.rejected, points |-> remotePoints,
                     local |-> inMemoryVectors, first |-> firstInserted]
           end == RouteLoop(start, ex.frames, videoId, ex.dir, unreadable,
                            qdrantClient, RemoteOk)
       IN /\ dirs' = [dirs EXCEPT ![videoId] = ex.dir]
          /\ remotePoints' = end.points
          /\ inMemoryVectors' = end.local
          /\ firstInserted' = end.first
          /\ ing' = [status |-> IF end.aborted THEN "error" ELSE "success",
                     videoId |-> videoId, interval |-> interval, decoderOk |-> decoderOk,
                     frames |-> ex.frames, processedFrames |-> end.processedFrames,
                     unreadable |-> unreadable,
                     contacted |-> qdrantClient /\ unreadable # 1..Len(ex.frames),
                     remoteOk |-> RemoteOk,
                     repeated |-> ~ex.rejected /\ lastRun[videoId].interval = interval]
          /\ lastRun' = IF ex.rejected THEN lastRun
                        ELSE [lastRun EXCEPT ![videoId] =
                                 [interval |-> interval, keys |-> Keys(ex.frames)]]
    /\ UNCHANGED <<qdrantUrl, qdrantClient, initPc, remoteUp, collectionExists, corrupt,
                   findRes>>

\* the frame ids a query may name
FrameIds == UNION {{FrameId(v, i) : i \in 0..(Duration(v) - 1)} : v \in VideoIds}

\* POST /search-similar: findSimilarFrames(frameId, limit)
FindSimilar(frameId, limit) ==
    /\ findRes = NoFind
    /\ \E searchResult \in SearchAnswers(qdrantClient, RemoteOk, remotePoints,
                                         frameId, limit) :
          LET r == findSimilarFrames(qdrantClient, RemoteOk, remotePoints,
                                     inMemoryVectors, frameId, limit, searchResult)
          IN findRes' = [frameId |-> frameId, limit |-> limit, outcome |-> r.outcome,
                         via |-> r.via, results |-> r.results,
                         contacted |-> qdrantClient, remoteOk |-> RemoteOk,
                         refInRemote |-> frameId \in RemoteIds(remotePoints)]
    /\ UNCHANGED <<qdrantUrl, qdrantClient, initPc, remoteUp, collectionExists,
                   remotePoints, inMemoryVectors, dirs, corrupt, ing, lastRun,
                   firstInserted, requests>>

\* POST /search-similar: the response (res.json or next(error)) ends the request
SearchResponse ==
    /\ findRes # NoFind
    /\ findRes' = NoFind
    /\ UNCHANGED <<qdrantUrl, qdrantClient, initPc, remoteUp, collectionExists,
                   remotePoints, inMemoryVectors, dirs, corrupt, ing, lastRun,
                   firstInserted, requests>>

Next ==
    \/ InitializeQdrant
    \/ RemoteFails
    \/ RemoteRecovers
    \/ \E v \in VideoIds, i \in Intervals, d \in BOOLEAN : ExtractFramesRequest(v, i, d)
    \/ \E f \in FrameIds, k \in Limits : FindSimilar(f, k)
    \/ SearchResponse

Spec == Init /\ [][Next]_vars

----------------------------------------------------------------------------
(* VectorService driven directly through its public methods, without a remote
   client: storeFrameVector(frame, features) takes any 192-value vector *)

\* the vector whose components are all zero
ZeroVector == [i \in 1..VectorSize |-> 0]

\* the vectors a caller passes: the zero vector and two histograms
CallerVectors ==
    {ZeroVector} \cup {computeColorHistogram(Picture(v, t)) : v \in VideoIds, t \in 0..1}

\* the FrameData a caller passes
CallerFrame(videoId, index) ==
    [id |-> FrameId(videoId, index), videoId |-> videoId, timestamp |-> index,
     filename |-> Pad4(index + 1), path |-> <<videoId, Pad4(index + 1)>>]

\* dotProduct / (magnitudeA * magnitudeB) is 0 / 0, which is NaN
IsNaN(score) == score.mag2 = 0 /\ score.dot = 0

ServiceInit == Init /\ ~qdrantUrl /\ corrupt = {}

\* a call of storeFrameVector(frame, features)
StoreFrameVectorCall(frame, features) ==
    /\ findRes = NoFind
    /\ LET st == storeFrameVector(qdrantClient, RemoteOk, remotePoints, inMemoryVectors,
                                  frame, features)
       IN /\ remotePoints' = st.points
          /\ inMemoryVectors' = st.local
          /\ firstInserted' = IF MapHas(st.local, frame.id)
                                   /\ ~MapHas(inMemoryVectors, frame.id)
                                THEN Append(firstInserted, frame.id) ELSE firstInserted
    /\ UNCHANGED <<qdrantUrl, qdrantClient, initPc, remoteUp, collectionExists, dirs,
                   corrupt, ing, lastRun, findRes, requests>>

ServiceNext ==
    \/ \E v \in VideoIds, vec \in CallerVectors :
          \E i \in 0..(Duration(v) - 1) : StoreFrameVectorCall(CallerFrame(v, i), vec)
    \/ \E f \in FrameIds, k \in Limits : FindSimilar(f, k)
    \/ SearchResponse

ServiceSpec == ServiceInit /\ [][ServiceNext]_vars

----------------------------------------------------------------------------
(* Properties *)

\* a query has just been answered
Answered == findRes.outcome # "none"

\* the latest ingestion request got its frames from extractFrames
Extracted == ing.status # "none" /\ ing.decoderOk

\* the frame carries a feature vector
HasFeatures(frame) == "features" \in DOMAIN frame

\* the frames of the latest ingestion whose files could be read
Readable == (1..Len(ing.frames)) \ ing.unreadable

\* C1: fallback activation. When a remote client is configured and the remote
\* calls fail, an ingestion still answers success, every frame it computed a
\* vector for carries that vector and is in the local map with it, and a
\* query for an id held in the local map is answered from the local map: it
\* does not fail, and with a large enough limit it lists every other local entry.
C1_FallbackActivation ==
    /\ (Extracted /\ ing.contacted /\ ~ing.remoteOk) =>
          /\ ing.status = "success"
          /\ \A i \in Readable :
                /\ HasFeatures(ing.processedFrames[i])
                /\ MapHas(inMemoryVectors, ing.frames[i].id)
                /\ MapGet(inMemoryVectors, ing.frames[i].id).features
                      = ing.processedFrames[i].features
    /\ (Answered /\ findRes.contacted /\ ~findRes.remoteOk
           /\ MapHas(inMemoryVectors, findRes.frameId)) =>
          /\ findRes.outcome = "ok"
          /\ findRes.via = "local"
          /\ findRes.limit >= Len(inMemoryVectors) - 1 =>
                {findRes.results[i].frame.id : i \in 1..Len(findRes.results)}
                   = MapIds(inMemoryVectors) \ {findRes.frameId}

\* C1 witness: a frame stored during a remote failure is queried during a remote
\* failure and the query lists another local entry
C1_Witness ==
    /\ Extracted /\ ing.contacted /\ ~ing.remoteOk
    /\ Answered /\ findRes.contacted /\ ~findRes.remoteOk
    /\ findRes.frameId \in {ing.frames[i].id : i \in Readable}
    /\ findRes.outcome = "ok"
    /\ findRes.results # <<>>

\* C2: partial success of ingestion. Whenever extraction returned its frames the
\* request answers success with one entry per extracted frame in extraction
\* order; an unreadable frame appears as extracted, without a vector; every
\* other frame appears with its metadata and its 192-value vector, and that
\* vector is held under the frame id by the remote collection or the local map.
C2_PartialSuccess ==
    Extracted =>
       /\ ing.status = "success"
       /\ Len(ing.processedFrames) = Len(ing.frames)
       /\ \A i \in ing.unreadable : ing.processedFrames[i] = ing.frames[i]
       /\ \A i \in Readable :
             LET out == ing.processedFrames[i]
                 id == ing.frames[i].id
             IN /\ HasFeatures(out)
                /\ \A x \in DOMAIN ing.frames[i] : out[x] = ing.frames[i][x]
                /\ Len(out.features) = VectorSize
                /\ \/ \E p \in remotePoints : p.id = id /\ p.vector = out.features
                   \/ /\ MapHas(inMemoryVectors, id)
                      /\ MapGet(inMemoryVectors, id).features = out.features

\* C2 witness: the first of two frames is unreadable and the second is processed
C2_Witness ==
    /\ Extracted /\ ing.status = "success"
    /\ Len(ing.frames) >= 2
    /\ 1 \in ing.unreadable /\ 2 \notin ing.unreadable
    /\ HasFeatures(ing.processedFrames[2])

\* C3: a query result never contains the reference frame id, on either path
C3_NoSelfMatch ==
    Answered =>
       \A i \in 1..Len(findRes.results) : findRes.results[i].frame.id # findRes.frameId

\* C3 witness: a query answered by the remote index with at least one result
C3_Witness ==
    /\ findRes.outcome = "ok" /\ findRes.via = "remote"
    /\ findRes.refInRemote
    /\ findRes.results # <<>>

\* C4: a query answered from a local map of N entries that holds the reference
\* returns exactly min(k, N - 1) results; k = 0 gives the empty list
C4_LocalResultSize ==
    (findRes.outcome = "ok" /\ findRes.via = "local") =>
       Len(findRes.results) = Min(findRes.limit, Len(inMemoryVectors) - 1)

\* C4 witness: a local query whose limit is positive and cuts the ranking
C4_Witness ==
    /\ findRes.outcome = "ok" /\ findRes.via = "local"
    /\ findRes.limit >= 1
    /\ findRes.limit < Len(inMemoryVectors) - 1
    /\ Len(findRes.results) = findRes.limit

\* position of an id in the order of first insertion into the local map
InsertedAt(id) == CHOOSE i \in 1..Len(firstInserted) : firstInserted[i] = id

\* entry x ranks before entry y for the reference vector: a higher score, or
\* an equal score and an earlier first insertion
RanksBefore(x, y, ref) ==
    LET sx == cosineSimilarity(ref, x.features)
        sy == cosineSimilarity(ref, y.features)
    IN \/ ScoreLess(sy, sx)
       \/ /\ ~ScoreLess(sx, sy)
          /\ InsertedAt(x.id) < InsertedAt(y.id)

C6_FrameDerivation ==
    Extracted =>
       LET files == DOMAIN dirs[ing.videoId]
           fr == ing.frames
       IN /\ Len(fr) = Cardinality(files)
          /\ {fr[i].filename : i \in 1..Len(fr)} = files
          /\ \A i, j \in 1..Len(fr) :
                i < j => LexLess(fr[i].filename, fr[j].filename) /\ fr[i].id # fr[j].id
          /\ \A i \in 1..Len(fr) :
                /\ fr[i].timestamp = (i - 1) * ing.interval
                /\ fr[i].videoId = ing.videoId
                /\ fr[i].id[1] = ing.videoId
                /\ Len(fr[i].id[2]) = PadWidth
                /\ \A d \in 1..PadWidth : fr[i].id[2][d] \in 0..9
                /\ DigitsValue(fr[i].id[2]) = i

\* C6 witness: an extraction at an interval above 1 returning at least two frames
C6_Witness ==
    /\ Extracted
    /\ ing.interval > 1
    /\ Len(ing.frames) >= 2
    /\ ing.frames[2].timestamp = ing.interval

C8_AbsentReferenceRaises ==
    (Answered /\ findRes.contacted /\ findRes.remoteOk /\ ~findRes.refInRemote) =>
       findRes.outcome = "notfound"

\* C9: split state on read. A query issued while the remote index is failing,
\* for a frame that lives in the remote collection only, raises not-found.
C9_SplitStateOnRead ==
    (Answered /\ ~findRes.remoteOk /\ findRes.refInRemote
        /\ ~MapHas(inMemoryVectors, findRes.frameId)) =>
       findRes.outcome = "notfound"

\* C9 witness: such a query, made through a configured client
C9_Witness ==
    /\ Answered /\ findRes.contacted /\ ~findRes.remoteOk
    /\ findRes.refInRemote
    /\ ~MapHas(inMemoryVectors, findRes.frameId)
    /\ findRes.outcome = "notfound"

\* C10: idempotence of extraction. A successful extraction of a video with the
\* interval of its previous successful extraction returns frames with the same
\* ids and timestamps, position by position.
C10_ExtractionIdempotent ==
    [][(requests' = requests + 1 /\ ing'.status = "success" /\ ing'.decoderOk
           /\ lastRun[ing'.videoId].interval = ing'.interval)
          => Keys(ing'.frames) = lastRun[ing'.videoId].keys]_vars

\* C10 witness: a repeated extraction returning at least two frames
C10_Witness ==
    /\ Extracted
    /\ ing.repeated
    /\ Len(ing.frames) >= 2

\* C11: a failed initialization is non-fatal and sticky. Once the failure of the
\* collection setup has been handled the service keeps answering requests, the
\* client stays dropped, and no later ingestion or query contacts the remote
\* index or changes the remote collection: they use the local map only.
C11_InitFailureSticky ==
    [][initPc = "failed" =>
          /\ initPc' = "failed"
          /\ ~qdrantClient /\ ~qdrantClient'
          /\ remotePoints' = remotePoints
          /\ (requests' = requests + 1) =>
                /\ ~ing'.contacted
                /\ (ing'.decoderOk => ing'.status = "success")
                /\ \A i \in (1..Len(ing'.frames)) \ ing'.unreadable :
                      MapHas(inMemoryVectors', ing'.frames[i].id)
          /\ (findRes = NoFind /\ findRes' # NoFind) =>
                /\ ~findRes'.contacted
                /\ findRes'.via = "local"]_vars

\* C11 witness: after a failed initialization the remote index is reachable
\* again, and an ingestion and a query have been served from the local map
C11_Witness ==
    /\ initPc = "failed"
    /\ remoteUp /\ collectionExists
    /\ Extracted /\ ing.status = "success" /\ ~ing.contacted
    /\ Readable # {}
    /\ remotePoints = {}
    /\ Answered /\ ~findRes.contacted
    /\ findRes.outcome = "ok" /\ findRes.via = "local"

\* C12: a failed extraction yields no frames. When the decoder signals an error
\* the request fails as a whole: it returns no frame list, and no vector is
\* stored in the remote collection or in the local map for it.
C12_FailedExtraction ==
    [][(requests' = requests + 1 /\ ~ing'.decoderOk) =>
          /\ ing'.status = "error"
          /\ ing'.frames = <<>>
          /\ ing'.processedFrames = <<>>
          /\ remotePoints' = remotePoints
          /\ inMemoryVectors' = inMemoryVectors]_vars

\* C12 witness: a decoder error on a video whose directory holds the files of
\* an earlier extraction
C12_Witness ==
    /\ ing.status = "error" /\ ~ing.decoderOk
    /\ DOMAIN dirs[ing.videoId] # {}
    /\ ing.processedFrames = <<>>
    /\ (remotePoints # {} \/ inMemoryVectors # <<>>)

\* C13: dimension invariant. In every reachable state every vector of the local
\* map and every vector upserted into the remote collection has exactly 192
\* components.
C13_Dimension ==
    /\ \A i \in 1..Len(inMemoryVectors) : Len(inMemoryVectors[i].features) = VectorSize
    /\ \A p \in remotePoints : Len(p.vector) = VectorSize

\* C13 witness: both stores hold vectors and a query has been answered
C13_Witness ==
    /\ inMemoryVectors # <<>>
    /\ remotePoints # {}
    /\ Answered /\ findRes.outcome = "ok"

\* the local query that has just been answered compared a vector of zero
\* magnitude: the reference or another entry of the map
ComparedZero ==
    /\ Answered /\ findRes.via = "local"
    /\ MapHas(inMemoryVectors, findRes.frameId)
    /\ Len(inMemoryVectors) >= 2
    /\ \E i \in 1..Len(inMemoryVectors) : inMemoryVectors[i].features = ZeroVector

C15_WritePlacement ==
    [][/\ (requests' = requests) =>
             /\ remotePoints' = remotePoints
             /\ inMemoryVectors' = inMemoryVectors
       /\ (requests' = requests + 1) =>
             LET done == (1..Len(ing'.frames)) \ ing'.unreadable
                 ids == {ing'.frames[i].id : i \in done}
             IN IF qdrantClient /\ RemoteOk
                THEN /\ inMemoryVectors' = inMemoryVectors
                     /\ RemoteIds(remotePoints') = RemoteIds(remotePoints) \cup ids
                     /\ \A p \in remotePoints : p.id \notin ids => p \in remotePoints'
                     /\ \A i \in done :
                           \E p \in remotePoints' :
                              /\ p.id = ing'.frames[i].id
                              /\ p.vector = ing'.processedFrames[i].features
                ELSE /\ remotePoints' = remotePoints
                     /\ MapIds(inMemoryVectors') = MapIds(inMemoryVectors) \cup ids
                     /\ \A j \in 1..Len(inMemoryVectors) :
                           inMemoryVectors[j].id \notin ids =>
                              inMemoryVectors'[j] = inMemoryVectors[j]
                     /\ \A i \in done :
                           MapGet(inMemoryVectors', ing'.frames[i].id).features
                              = ing'.processedFrames[i].features]_vars

\* C15 witness: after an outage left entries in the local map, the remote index
\* answers again and an ingestion has written to the remote collection; the
\* local map still holds the entries of the outage
C15_Witness ==
    /\ Extracted /\ ing.contacted /\ ing.remoteOk
    /\ Readable # {}
    /\ remotePoints # {}
    /\ inMemoryVectors # <<>>
    /\ initPc = "ok"

\* C16 as stated: the frames an extraction returns belong to the current run.
\* The list has as many frames as the decoder wrote in this call, and the frame
\* at 0-based position i refers to the file written as the (i + 1)-th output of
\* this call.
C16_FramesOfCurrentRun ==
    Extracted =>
       /\ Len(ing.frames) = FrameCount(ing.videoId, ing.interval)
       /\ \A i \in 1..Len(ing.frames) :
             /\ ing.frames[i].filename = Pad4(i)
             /\ dirs[ing.videoId][ing.frames[i].filename] = ing.interval

====
